---- MODULE Spec2Model ----
(***************************************************************************)
(* A model of the hls-parse crate: the nom-based playlist parser of        *)
(* parsers.rs (text is a sequence of one-character strings, a position is  *)
(* an index into it), the record builders of builders.rs and the value     *)
(* conversions of types.rs.                                                *)
(***************************************************************************)
EXTENDS Integers, Sequences, FiniteSets, TLC

VARIABLES
    doc,         \* the catalogue indices of the lines the input is made of
    data,        \* parse_hls_playlist's argument: the input text
    pos,         \* the head of the input stream inside many1
    components,  \* the HlsElements many1 has collected so far
    pc,          \* "idle" | "parsing" | "done"
    ret,         \* what parse_hls_playlist produced
    bkind,       \* which builder is in use: "none" | "audio" | "stream" | "iframe"
    builder,     \* the builder's optional slots
    bstate,      \* "idle" | "open" | "built" | "panicked"
    bret,        \* what build() returned
    last,        \* the last incorporate call: its key, value and outcome
    nInc,        \* incorporate calls made so far
    call,        \* a call of a conversion or comparison: its name and arguments
    out          \* what that call returned

vars == <<doc, data, pos, components, pc, ret, bkind, builder, bstate, bret, last, nInc,
          call, out>>
parserVars == <<doc, data, pos, components, pc, ret>>
builderVars == <<bkind, builder, bstate, bret, last, nInc>>
convVars == <<call, out>>

----------------------------------------------------------------------------
(* Text *)

\* A string literal as a sequence of one-character strings.
Chars(s) == [i \in 1..Len(s) |-> SubSeq(s, i, i)]

RECURSIVE Concat(_)
Concat(ss) == IF ss = <<>> THEN <<>> ELSE Head(ss) \o Concat(Tail(ss))

Digits == {"0", "1", "2", "3", "4", "5", "6", "7", "8", "9"}
DigitChars == Chars("0123456789")
DigitVal(c) == (CHOOSE i \in 1..Len(DigitChars) : DigitChars[i] = c) - 1

\* nom's space0 character class.
SpaceChars == {" ", "\t"}
\* nom's multispace0 character class.
MultispaceChars == {" ", "\t", "\r", "\n"}
\* char::is_whitespace, on the alphabet of the model.
WhitespaceChars == {" ", "\t", "\r", "\n"}

----------------------------------------------------------------------------
(* Parser results: Ok carries the new head of the stream and the output;  *)
(* Err is nom's recoverable Err::Error; Panic is an unwinding panic.       *)

Ok(p, v) == [tag |-> "Ok", pos |-> p, val |-> v]
Err == [tag |-> "Err"]
Panic == [tag |-> "Panic"]

\* The first position at or after p whose character is in S, else Len(d) + 1.
FindFirst(d, p, S) ==
    IF p > Len(d) THEN Len(d) + 1
    ELSE CHOOSE i \in p..(Len(d) + 1) :
            /\ i > Len(d) \/ d[i] \in S
            /\ \A j \in p..(i - 1) : d[j] \notin S

\* The first position at or after p whose character is not in S, else Len(d) + 1.
SkipWhile(d, p, S) ==
    IF p > Len(d) THEN Len(d) + 1
    ELSE CHOOSE i \in p..(Len(d) + 1) :
            /\ i > Len(d) \/ d[i] \notin S
            /\ \A j \in p..(i - 1) : d[j] \in S

Slice(d, from, to) == SubSeq(d, from, to - 1)

tag(d, p, t) ==
    IF p + Len(t) - 1 <= Len(d) /\ \A i \in 1..Len(t) : d[p + i - 1] = t[i]
    THEN Ok(p + Len(t), t)
    ELSE Err

space0(d, p) == LET e == SkipWhile(d, p, SpaceChars) IN Ok(e, Slice(d, p, e))

multispace0(d, p) == LET e == SkipWhile(d, p, MultispaceChars) IN Ok(e, Slice(d, p, e))

newline(d, p) == IF p <= Len(d) /\ d[p] = "\n" THEN Ok(p + 1, "\n") ELSE Err

digit1(d, p) ==
    LET e == SkipWhile(d, p, Digits)
    IN  IF e = p THEN Err ELSE Ok(e, Slice(d, p, e))

\* A not_line_ending that stops only at "\n".
not_line_ending_keeps_cr(d, p) ==
    LET e == FindFirst(d, p, {"\n"}) IN Ok(e, Slice(d, p, e))

\* Everything up to the line ending; a lone "\r" is an error.
not_line_ending(d, p) ==
    LET e == FindFirst(d, p, {"\r", "\n"})
    IN  IF e > Len(d) THEN Ok(e, Slice(d, p, e))
        ELSE IF d[e] = "\r" /\ ~(e + 1 <= Len(d) /\ d[e + 1] = "\n") THEN Err
        ELSE Ok(e, Slice(d, p, e))

opt_comma(d, p) == IF p <= Len(d) /\ d[p] = "," THEN Ok(p + 1, ",") ELSE Ok(p, "")

----------------------------------------------------------------------------
(* Value conversions *)

RECURSIVE DigitsToNat(_, _)
DigitsToNat(s, acc) ==
    IF s = <<>> THEN acc ELSE DigitsToNat(Tail(s), acc * 10 + DigitVal(Head(s)))

\* usize::from_str: an optional "+", then one or more decimal digits.  The digit
\* strings of the model are short, so the overflow error is never met.
usize_from_str(s) ==
    LET body == IF s # <<>> /\ Head(s) = "+" THEN Tail(s) ELSE s
    IN  IF body # <<>> /\ \A i \in 1..Len(body) : body[i] \in Digits
        THEN [tag |-> "Ok", val |-> DigitsToNat(body, 0)]
        ELSE Err

RECURSIVE Normalize(_, _)
Normalize(mant, scale) ==
    IF scale > 0 /\ mant % 10 = 0 THEN Normalize(mant \div 10, scale - 1)
    ELSE [mant |-> mant, scale |-> scale]

\* f32::from_str on plain decimal notation: an optional sign, digits with at most
\* one ".", at least one digit.  The value is kept as mant / 10^scale, and -0 = 0.
\* Exponents, "inf" and "nan" are not in the model's alphabet.
f32_from_str(s) ==
    LET signed == s # <<>> /\ Head(s) \in {"+", "-"}
        body == IF signed THEN Tail(s) ELSE s
        dot == FindFirst(body, 1, {"."})
        int == SubSeq(body, 1, dot - 1)
        frac == SubSeq(body, dot + 1, Len(body))
        digs == int \o frac
        n == Normalize(DigitsToNat(digs, 0), Len(frac))
    IN  IF digs # <<>> /\ \A i \in 1..Len(digs) : digs[i] \in Digits
        THEN [tag |-> "Ok",
              val |-> [neg |-> signed /\ Head(s) = "-" /\ n.mant # 0,
                       mant |-> n.mant, scale |-> n.scale]]
        ELSE Err

\* str::split on one character: always at least one segment.
RECURSIVE Split(_, _)
Split(s, c) ==
    LET i == FindFirst(s, 1, {c})
    IN  IF i > Len(s) THEN <<s>>
        ELSE <<SubSeq(s, 1, i - 1)>> \o Split(SubSeq(s, i + 1, Len(s)), c)

bool_from_param_str(s) ==
    IF s = Chars("YES") THEN [tag |-> "Ok", val |-> TRUE]
    ELSE IF s = Chars("NO") THEN [tag |-> "Ok", val |-> FALSE]
    ELSE Err

bool_from_cc_str(s) ==
    IF s = Chars("CC") THEN [tag |-> "Ok", val |-> TRUE]
    ELSE IF s = Chars("NONE") THEN [tag |-> "Ok", val |-> FALSE]
    ELSE Err

\* The struct literal of AudioChannelInfo::from_str, given s.split('/'): split[0]
\* and split[1] of the source are split[1] and split[2] here.
ChannelInfoOf(split, channels) ==
    IF channels.tag # "Ok" THEN Err
    ELSE [tag |-> "Ok",
          val |-> [channels |-> channels.val,
                   joc |-> Len(split) > 1 /\ split[2] = Chars("JOC")]]

ChannelInfoOfSplit(split) == ChannelInfoOf(split, usize_from_str(split[1]))

AudioChannelInfo_from_str(s) == ChannelInfoOfSplit(Split(s, "/"))

ResolutionOf(width, height) ==
    IF height.tag # "Ok" THEN Err
    ELSE [tag |-> "Ok", val |-> [width |-> width.val, height |-> height.val]]

\* The struct literal of Resolution::from_str, given s.split('x'): split[1] of the
\* source is split[2] here, and indexing it panics when the value holds no "x",
\* after the width has parsed.
ResolutionOfSplit(split, width) ==
    IF width.tag # "Ok" THEN Err
    ELSE IF Len(split) < 2 THEN Panic
    ELSE ResolutionOf(width, usize_from_str(split[2]))

ResolutionOfWidth(split) == ResolutionOfSplit(split, usize_from_str(split[1]))

Resolution_from_str(s) == ResolutionOfWidth(Split(s, "x"))

codecs_from_str(s) == [tag |-> "Ok", val |-> Split(s, ",")]

\* The conversion a map_res applies to a parser's output.
Convert(conv, s) ==
    CASE conv = "none" -> [tag |-> "Ok", val |-> s]
      [] conv = "usize" -> usize_from_str(s)
      [] conv = "f32" -> f32_from_str(s)
      [] conv = "bool" -> bool_from_param_str(s)
      [] conv = "cc" -> bool_from_cc_str(s)
      [] conv = "channels" -> AudioChannelInfo_from_str(s)
      [] conv = "resolution" -> Resolution_from_str(s)
      [] conv = "codecs" -> codecs_from_str(s)

\* map_res: the parser's output through a conversion; a failed conversion is a
\* recoverable parse error, a panic unwinds.
MapOutput(p, c) == IF c.tag = "Ok" THEN Ok(p, c.val) ELSE c

map_res(r, conv) == IF r.tag # "Ok" THEN r ELSE MapOutput(r.pos, Convert(conv, r.val))

----------------------------------------------------------------------------
(* Parameter parsers *)

P_AUDIO == Chars("AUDIO")
P_AUTOSELECT == Chars("AUTOSELECT")
P_AVERAGE_BANDWIDTH == Chars("AVERAGE-BANDWIDTH")
P_BANDWIDTH == Chars("BANDWIDTH")
P_CHANNELS == Chars("CHANNELS")
P_CLOSED_CAPTIONS == Chars("CLOSED-CAPTIONS")
P_CODECS == Chars("CODECS")
P_DEFAULT == Chars("DEFAULT")
P_FRAME_RATE == Chars("FRAME-RATE")
P_GROUP_ID == Chars("GROUP-ID")
P_LANGUAGE == Chars("LANGUAGE")
P_NAME == Chars("NAME")
P_RESOLUTION == Chars("RESOLUTION")
P_URI == Chars("URI")
P_VIDEO_RANGE == Chars("VIDEO-RANGE")

\* take_till(|c| c == ',' || c.is_whitespace()): never fails, may be empty.
param_value_no_enclosure(d, p) ==
    LET e == FindFirst(d, p, {","} \cup WhitespaceChars) IN Ok(e, Slice(d, p, e))

\* tag("\""), take_until("\""), tag("\"").
param_value_double_quoted(d, p) ==
    IF ~(p <= Len(d) /\ d[p] = "\"") THEN Err
    ELSE LET e == FindFirst(d, p + 1, {"\""})
         IN  IF e > Len(d) THEN Err ELSE Ok(e + 1, Slice(d, p + 1, e))

\* The parsers a tuple is made of.
Tag(t) == [op |-> "tag", t |-> t]
Space0 == [op |-> "space0"]
Multispace0 == [op |-> "multispace0"]
Newline == [op |-> "newline"]
NotLineEnding == [op |-> "not_line_ending"]
OptComma == [op |-> "opt_comma"]
Value(enclosed_by) == [op |-> "value", enclosed_by |-> enclosed_by]
Digit1(conv) == [op |-> "digit1", conv |-> conv]
Param(param_name, enclosed_by, conv) ==
    [op |-> "param", name |-> param_name, enclosed_by |-> enclosed_by, conv |-> conv]

\* '<param_name>=<value>,' with optional spaces and an optional comma.
ParamParts(param_name, enclosed_by) ==
    <<Tag(param_name), Space0, Tag(<<"=">>), Space0, Value(enclosed_by), Space0, OptComma>>

\* nom's parser for a tuple: its parts in sequence, each from where the one before
\* it stopped; the outputs are collected in order.  The first part that fails
\* fails the tuple.
RECURSIVE Tuple(_, _, _, _)

\* The closure of comma_terminated_param: the value is the fifth output (tuple.4).
ParamValue(r) == IF r.tag = "Ok" THEN Ok(r.pos, r.val[5]) ELSE r

Part(part, d, p) ==
    CASE part.op = "tag" -> tag(d, p, part.t)
      [] part.op = "space0" -> space0(d, p)
      [] part.op = "multispace0" -> multispace0(d, p)
      [] part.op = "newline" -> newline(d, p)
      [] part.op = "not_line_ending" -> not_line_ending(d, p)
      [] part.op = "opt_comma" -> opt_comma(d, p)
      [] part.op = "digit1" -> map_res(digit1(d, p), part.conv)
      [] part.op = "value" ->
            IF part.enclosed_by = "DoubleQuotes" THEN param_value_double_quoted(d, p)
            ELSE param_value_no_enclosure(d, p)
      [] part.op = "param" ->
            map_res(ParamValue(Tuple(ParamParts(part.name, part.enclosed_by), d, p, <<>>)),
                    part.conv)

TupleRest(r, parts, d, vals) ==
    IF r.tag # "Ok" THEN r ELSE Tuple(Tail(parts), d, r.pos, Append(vals, r.val))

Tuple(parts, d, p, vals) ==
    IF parts = <<>> THEN Ok(p, vals)
    ELSE TupleRest(Part(Head(parts), d, p), parts, d, vals)

comma_terminated_param(d, p, param_name, enclosed_by) ==
    Part(Param(param_name, enclosed_by, "none"), d, p)

stream_param_bandwidth == Param(P_BANDWIDTH, "None", "usize")
stream_param_codec == Param(P_CODECS, "DoubleQuotes", "codecs")
stream_param_resolution == Param(P_RESOLUTION, "None", "resolution")
stream_param_video_range == Param(P_VIDEO_RANGE, "None", "none")

----------------------------------------------------------------------------
(* Declaration recognizers: each returns the HlsElement it parsed.  The     *)
(* output of a tuple is indexed from 1 here and from 0 in the source.       *)

NoData == [kind |-> "NoData"]

extension_prefix == Tag(Chars("#EXT-X-"))

\* The closures of the recognizers' map_res: the HlsElement of a tuple's outputs.
NoDataElement(r) == IF r.tag # "Ok" THEN r ELSE Ok(r.pos, NoData)

VersionElement(r) ==
    IF r.tag # "Ok" THEN r ELSE Ok(r.pos, [kind |-> "Version", v |-> r.val[3]])

\* A header recognizer that asks for no literal.
hls_header_no_literal(d, p) == NoDataElement(Tuple(<<Multispace0>>, d, p, <<>>))

\* A header recognizer that takes any line starting with "#EXT".
hls_header_any_tag(d, p) ==
    NoDataElement(Tuple(<<Tag(Chars("#EXT")), NotLineEnding, Multispace0>>, d, p, <<>>))

hls_header(d, p) == NoDataElement(Tuple(<<Tag(Chars("#EXTM3U")), Multispace0>>, d, p, <<>>))

hls_independent_segments(d, p) ==
    NoDataElement(Tuple(<<extension_prefix, Tag(Chars("INDEPENDENT-SEGMENTS")), Multispace0>>,
                        d, p, <<>>))

hls_version(d, p) ==
    VersionElement(Tuple(<<extension_prefix, Tag(Chars("VERSION:")), Digit1("usize"),
                           Multispace0>>, d, p, <<>>))

\* The inner tuple (space0, tag("TYPE=AUDIO"), space0, tag(",")) is laid out flat:
\* the outputs 1..4 below are the source's tuple.2, so tuple.3 is output 7.
AudioParts ==
    <<extension_prefix, Tag(Chars("MEDIA:")),
      Space0, Tag(Chars("TYPE=AUDIO")), Space0, Tag(<<",">>),
      Param(P_GROUP_ID, "DoubleQuotes", "none"),
      Param(P_NAME, "DoubleQuotes", "none"),
      Param(P_LANGUAGE, "DoubleQuotes", "none"),
      Param(P_DEFAULT, "None", "bool"),
      Param(P_AUTOSELECT, "None", "bool"),
      Param(P_CHANNELS, "DoubleQuotes", "channels"),
      Param(P_URI, "DoubleQuotes", "none"),
      Multispace0>>

AudioElement(r) ==
    IF r.tag # "Ok" THEN r
    ELSE Ok(r.pos,
            [kind |-> "Audio",
             rec |-> [group_id |-> r.val[7], name |-> r.val[8], language |-> r.val[9],
                      default |-> r.val[10], auto_select |-> r.val[11],
                      channel_info |-> r.val[12], uri |-> r.val[13]]])

hls_audio(d, p) == AudioElement(Tuple(AudioParts, d, p, <<>>))

StreamInfoParts ==
    <<extension_prefix, Tag(Chars("STREAM-INF:")), Space0,
      stream_param_bandwidth,
      Param(P_AVERAGE_BANDWIDTH, "None", "usize"),
      stream_param_codec,
      stream_param_resolution,
      Param(P_FRAME_RATE, "None", "f32"),
      stream_param_video_range,
      Param(P_AUDIO, "DoubleQuotes", "none"),
      Param(P_CLOSED_CAPTIONS, "None", "cc"),
      Space0, Newline, NotLineEnding,
      Multispace0>>

\* The closed_captions field takes the output of bool_from_cc_str (tuple.10).
StreamInfoElement(r) ==
    IF r.tag # "Ok" THEN r
    ELSE Ok(r.pos,
            [kind |-> "StreamInfo",
             rec |-> [common |-> [bandwidth |-> r.val[4], codecs |-> r.val[6],
                                  resolution |-> r.val[7], video_range |-> r.val[9],
                                  uri |-> r.val[14]],
                      average_bandwidth |-> r.val[5], frame_rate |-> r.val[8],
                      audio_codec |-> r.val[10], closed_captions |-> r.val[11]]])

hls_stream_info(d, p) == StreamInfoElement(Tuple(StreamInfoParts, d, p, <<>>))

IframeStreamInfoParts ==
    <<extension_prefix, Tag(Chars("I-FRAME-STREAM-INF:")), Space0,
      stream_param_bandwidth,
      stream_param_codec,
      stream_param_resolution,
      stream_param_video_range,
      Param(P_URI, "DoubleQuotes", "none"),
      Multispace0>>

IframeStreamInfoElement(r) ==
    IF r.tag # "Ok" THEN r
    ELSE Ok(r.pos,
            [kind |-> "IframeStreamInfo",
             rec |-> [common |-> [bandwidth |-> r.val[4], codecs |-> r.val[5],
                                  resolution |-> r.val[6], video_range |-> r.val[7],
                                  uri |-> r.val[8]]]])

hls_iframe_stream_info(d, p) ==
    IframeStreamInfoElement(Tuple(IframeStreamInfoParts, d, p, <<>>))

----------------------------------------------------------------------------
(* The dispatcher: all_consuming(many1(alt((...)))) and the fold *)

\* The alternatives of alt, in the order of the source.
Recognizers == <<"hls_stream_info", "hls_iframe_stream_info", "hls_audio",
                 "hls_version", "hls_independent_segments", "hls_header">>

Recognize(name, d, p) ==
    CASE name = "hls_stream_info" -> hls_stream_info(d, p)
      [] name = "hls_iframe_stream_info" -> hls_iframe_stream_info(d, p)
      [] name = "hls_audio" -> hls_audio(d, p)
      [] name = "hls_version" -> hls_version(d, p)
      [] name = "hls_independent_segments" -> hls_independent_segments(d, p)
      [] name = "hls_header" -> hls_header(d, p)

\* alt from its k-th alternative on: the first that does not return Err::Error
\* decides (a success is returned, a panic unwinds).
RECURSIVE AltFrom(_, _, _)
AltNext(r, k, d, p) ==
    IF r.tag = "Err" THEN AltFrom(k + 1, d, p)
    ELSE [tag |-> r.tag, by |-> Recognizers[k], res |-> r]

AltFrom(k, d, p) ==
    IF k > Len(Recognizers) THEN [tag |-> "Err", by |-> "none"]
    ELSE AltNext(Recognize(Recognizers[k], d, p), k, d, p)

alt(d, p) == AltFrom(1, d, p)

DefaultPlaylist == [audio_streams |-> <<>>, streams |-> <<>>, iframe_streams |-> <<>>,
                    version |-> 0]

\* A fold in which the first version declaration wins.
add_to_playlist_first_version(elt, playlist) ==
    CASE elt.kind = "NoData" -> playlist
      [] elt.kind = "Audio" ->
            [playlist EXCEPT !.audio_streams = Append(@, elt.rec)]
      [] elt.kind = "StreamInfo" ->
            [playlist EXCEPT !.streams = Append(@, elt.rec)]
      [] elt.kind = "IframeStreamInfo" ->
            [playlist EXCEPT !.iframe_streams = Append(@, elt.rec)]
      [] elt.kind = "Version" ->
            IF playlist.version = 0 THEN [playlist EXCEPT !.version = elt.v] ELSE playlist

\* A fold that puts each audio record in front of the earlier ones.
add_to_playlist_prepend(elt, playlist) ==
    CASE elt.kind = "NoData" -> playlist
      [] elt.kind = "Audio" ->
            [playlist EXCEPT !.audio_streams = <<elt.rec>> \o @]
      [] elt.kind = "StreamInfo" ->
            [playlist EXCEPT !.streams = Append(@, elt.rec)]
      [] elt.kind = "IframeStreamInfo" ->
            [playlist EXCEPT !.iframe_streams = Append(@, elt.rec)]
      [] elt.kind = "Version" -> [playlist EXCEPT !.version = elt.v]

\* A fold in which an element without data resets the version.
add_to_playlist_nodata_resets(elt, playlist) ==
    CASE elt.kind = "NoData" -> [playlist EXCEPT !.version = 0]
      [] elt.kind = "Audio" ->
            [playlist EXCEPT !.audio_streams = Append(@, elt.rec)]
      [] elt.kind = "StreamInfo" ->
            [playlist EXCEPT !.streams = Append(@, elt.rec)]
      [] elt.kind = "IframeStreamInfo" ->
            [playlist EXCEPT !.iframe_streams = Append(@, elt.rec)]
      [] elt.kind = "Version" -> [playlist EXCEPT !.version = elt.v]

add_to_playlist(elt, playlist) ==
    CASE elt.kind = "NoData" -> playlist
      [] elt.kind = "Audio" ->
            [playlist EXCEPT !.audio_streams = Append(@, elt.rec)]
      [] elt.kind = "StreamInfo" ->
            [playlist EXCEPT !.streams = Append(@, elt.rec)]
      [] elt.kind = "IframeStreamInfo" ->
            [playlist EXCEPT !.iframe_streams = Append(@, elt.rec)]
      [] elt.kind = "Version" -> [playlist EXCEPT !.version = elt.v]

\* for elt in components { elt.add_to_playlist(&mut res); }
RECURSIVE FoldComponents(_, _)
FoldComponents(comps, playlist) ==
    IF comps = <<>> THEN playlist
    ELSE FoldComponents(Tail(comps), add_to_playlist(Head(comps), playlist))

\* An Outcome that does not ask for the end of the input.
Outcome_partial(d, p, comps) ==
    IF comps = <<>> THEN [tag |-> "Err", kind |-> "Many1"]
    ELSE [tag |-> "Ok", playlist |-> FoldComponents(comps, DefaultPlaylist)]

\* What parse_hls_playlist returns once many1 has stopped at position p with the
\* elements comps: many1 needs one element, all_consuming needs the end of input.
Outcome(d, p, comps) ==
    IF comps = <<>> THEN [tag |-> "Err", kind |-> "Many1"]
    ELSE IF p <= Len(d) THEN [tag |-> "Err", kind |-> "Eof"]
    ELSE [tag |-> "Ok", playlist |-> FoldComponents(comps, DefaultPlaylist)]

\* many1's loop from position p: stops at the first recoverable error or at an
\* element that consumed nothing.
RECURSIVE many1(_, _, _)
Many1Next(a, d, p, comps) ==
    IF a.tag = "Panic" THEN [tag |-> "Panic"]
    ELSE IF a.tag = "Err" THEN Outcome(d, p, comps)
    ELSE IF a.res.pos = p THEN [tag |-> "Err", kind |-> "Many1"]
    ELSE many1(d, a.res.pos, Append(comps, a.res.val))

many1(d, p, comps) == Many1Next(alt(d, p), d, p, comps)

parse_hls_playlist(d) == many1(d, 1, <<>>)

----------------------------------------------------------------------------
(* The inputs: documents of up to MaxLines lines of a catalogue *)

MaxLines == 2

RECURSIVE JoinComma(_, _)
JoinComma(attrs, order) ==
    IF order = <<>> THEN <<>>
    ELSE Chars(attrs[Head(order)])
         \o (IF Len(order) > 1 THEN <<",">> ELSE <<>>)
         \o JoinComma(attrs, Tail(order))

\* A declaration line: its literal prefix, then its attributes in the given order.
DeclLine(prefix, attrs, order) == Chars(prefix) \o JoinComma(attrs, order)

Identity(n) == [i \in 1..n |-> i]
Reverse(n) == [i \in 1..n |-> n + 1 - i]
SwapFirst(n) == [i \in 1..n |-> IF i = 1 THEN 2 ELSE IF i = 2 THEN 1 ELSE i]

AudioPrefix == "#EXT-X-MEDIA:TYPE=AUDIO,"
StreamPrefix == "#EXT-X-STREAM-INF:"
IframePrefix == "#EXT-X-I-FRAME-STREAM-INF:"

AudioA == <<"GROUP-ID=\"aac\"", "NAME=\"En\"", "LANGUAGE=\"en\"", "DEFAULT=YES",
            "AUTOSELECT=YES", "CHANNELS=\"2\"", "URI=\"a.m3u8\"">>
AudioB == <<"GROUP-ID=\"atmos\"", "NAME=\"Fr\"", "LANGUAGE=\"fr\"", "DEFAULT=NO",
            "AUTOSELECT=YES", "CHANNELS=\"16/JOC\"", "URI=\"b.m3u8\"">>
AudioBadDefault == <<"GROUP-ID=\"aac\"", "NAME=\"En\"", "LANGUAGE=\"en\"", "DEFAULT=MAYBE",
                     "AUTOSELECT=YES", "CHANNELS=\"2\"", "URI=\"a.m3u8\"">>
StreamS == <<"BANDWIDTH=2483789", "AVERAGE-BANDWIDTH=1762745", "CODECS=\"mp4a,hvc1\"",
             "RESOLUTION=960x540", "FRAME-RATE=23.97", "VIDEO-RANGE=PQ", "AUDIO=\"aac\"",
             "CLOSED-CAPTIONS=NONE">>
StreamT == <<"BANDWIDTH=100", "AVERAGE-BANDWIDTH=90", "CODECS=\"avc1\"",
             "RESOLUTION=640x360", "FRAME-RATE=30", "VIDEO-RANGE=SDR", "AUDIO=\"atmos\"",
             "CLOSED-CAPTIONS=CC">>
StreamNoX == <<"BANDWIDTH=100", "AVERAGE-BANDWIDTH=90", "CODECS=\"avc1\"",
               "RESOLUTION=960", "FRAME-RATE=30", "VIDEO-RANGE=SDR", "AUDIO=\"atmos\"",
               "CLOSED-CAPTIONS=CC">>
StreamUriAttr == <<"BANDWIDTH=100", "AVERAGE-BANDWIDTH=90", "CODECS=\"avc1\"",
                   "RESOLUTION=640x360", "FRAME-RATE=30", "VIDEO-RANGE=SDR", "AUDIO=\"atmos\"",
                   "CLOSED-CAPTIONS=CC", "URI=\"attr.m3u8\"">>
IframeI == <<"BANDWIDTH=222552", "CODECS=\"hvc1\"", "RESOLUTION=1280x720",
             "VIDEO-RANGE=PQ", "URI=\"i.m3u8\"">>

RecAudioA == [group_id |-> Chars("aac"), name |-> Chars("En"), language |-> Chars("en"),
              default |-> TRUE, auto_select |-> TRUE,
              channel_info |-> [channels |-> 2, joc |-> FALSE], uri |-> Chars("a.m3u8")]
RecAudioB == [group_id |-> Chars("atmos"), name |-> Chars("Fr"), language |-> Chars("fr"),
              default |-> FALSE, auto_select |-> TRUE,
              channel_info |-> [channels |-> 16, joc |-> TRUE], uri |-> Chars("b.m3u8")]
\* A variant stream's record but for its uri, which is the next line.
RecStreamS == [common |-> [bandwidth |-> 2483789, codecs |-> <<Chars("mp4a"), Chars("hvc1")>>,
                           resolution |-> [width |-> 960, height |-> 540],
                           video_range |-> Chars("PQ")],
               average_bandwidth |-> 1762745,
               frame_rate |-> [neg |-> FALSE, mant |-> 2397, scale |-> 2],
               audio_codec |-> Chars("aac"), closed_captions |-> FALSE]
RecStreamT == [common |-> [bandwidth |-> 100, codecs |-> <<Chars("avc1")>>,
                           resolution |-> [width |-> 640, height |-> 360],
                           video_range |-> Chars("SDR")],
               average_bandwidth |-> 90,
               frame_rate |-> [neg |-> FALSE, mant |-> 30, scale |-> 0],
               audio_codec |-> Chars("atmos"), closed_captions |-> TRUE]
RecIframeI == [common |-> [bandwidth |-> 222552, codecs |-> <<Chars("hvc1")>>,
                           resolution |-> [width |-> 1280, height |-> 720],
                           video_range |-> Chars("PQ"), uri |-> Chars("i.m3u8")]]

NL == <<"\n">>
UriS == Chars("hdr10/unenc/1650k/vod.m3u8")
UriT == Chars("t.m3u8")

\* Each entry: the text it adds to the document; permOf names the entry whose
\* attribute line this one permutes (0: none).
Catalogue == <<
    [text |-> Chars("#EXTM3U") \o NL, permOf |-> 0],
    [text |-> Chars("#EXT-X-INDEPENDENT-SEGMENTS") \o NL, permOf |-> 0],
    [text |-> Chars("#EXT-X-VERSION:5") \o NL, permOf |-> 0],
    [text |-> Chars("#EXT-X-VERSION:12") \o NL \o NL, permOf |-> 0],
    [text |-> DeclLine(AudioPrefix, AudioA, Identity(7)) \o NL, permOf |-> 0],
    [text |-> DeclLine(AudioPrefix, AudioB, Identity(7)) \o NL \o NL, permOf |-> 0],
    [text |-> DeclLine(AudioPrefix, AudioA, SwapFirst(7)) \o NL, permOf |-> 5],
    [text |-> DeclLine(StreamPrefix, StreamS, Identity(8)) \o NL \o UriS \o NL, permOf |-> 0],
    [text |-> DeclLine(StreamPrefix, StreamT, Identity(8)) \o NL \o UriT \o <<"\r", "\n">>,
     permOf |-> 0],
    [text |-> DeclLine(StreamPrefix, StreamS, Reverse(8)) \o NL \o UriS \o NL, permOf |-> 8],
    [text |-> DeclLine(StreamPrefix, StreamT, Identity(8)) \o NL, permOf |-> 0],
    [text |-> DeclLine(IframePrefix, IframeI, Identity(5)) \o NL, permOf |-> 0],
    [text |-> DeclLine(IframePrefix, IframeI, SwapFirst(5)) \o NL, permOf |-> 12],
    [text |-> Chars("# other comment") \o NL, permOf |-> 0],
    [text |-> Chars("this line should never exist in an HLS playlist!") \o NL, permOf |-> 0],
    [text |-> Chars("#EXT-X-START:TIME-OFFSET=0") \o NL, permOf |-> 0],
    [text |-> DeclLine(StreamPrefix, StreamNoX, Identity(8)) \o NL \o UriT \o NL, permOf |-> 0],
    [text |-> DeclLine(AudioPrefix, AudioBadDefault, Identity(7)) \o NL, permOf |-> 0],
    [text |-> NL, permOf |-> 0],
    [text |-> DeclLine(StreamPrefix, StreamUriAttr, Identity(9)) \o NL \o UriT \o NL,
     permOf |-> 0] >>

\* The attribute lines whose record is known, with that record.
KnownDecls == <<
    [line |-> DeclLine(AudioPrefix, AudioA, Identity(7)), rec |-> RecAudioA],
    [line |-> DeclLine(AudioPrefix, AudioB, Identity(7)), rec |-> RecAudioB],
    [line |-> DeclLine(AudioPrefix, AudioA, SwapFirst(7)), rec |-> RecAudioA],
    [line |-> DeclLine(StreamPrefix, StreamS, Identity(8)), rec |-> RecStreamS],
    [line |-> DeclLine(StreamPrefix, StreamT, Identity(8)), rec |-> RecStreamT],
    [line |-> DeclLine(StreamPrefix, StreamS, Reverse(8)), rec |-> RecStreamS],
    [line |-> DeclLine(IframePrefix, IframeI, Identity(5)), rec |-> RecIframeI],
    [line |-> DeclLine(IframePrefix, IframeI, SwapFirst(5)), rec |-> RecIframeI] >>

RECURSIVE SeqsUpTo(_, _)
SeqsUpTo(S, n) ==
    IF n = 0 THEN {<<>>}
    ELSE LET shorter == SeqsUpTo(S, n - 1)
         IN  shorter \cup {Append(q, x) : q \in shorter, x \in S}

Docs == SeqsUpTo(1..Len(Catalogue), MaxLines)

Render(dc) == Concat([i \in 1..Len(dc) |-> Catalogue[dc[i]].text])

----------------------------------------------------------------------------
(* The parser as a state machine: one step of many1 per action *)

NoBuilder == [kind |-> "none"]
NoCall == [op |-> "none"]

BuilderIdle ==
    /\ bkind = "none" /\ builder = NoBuilder /\ bstate = "idle"
    /\ bret = [tag |-> "None"] /\ last = NoCall /\ nInc = 0

ConvIdle == call = [fn |-> "none"] /\ out = [tag |-> "None"]

Init ==
    /\ doc \in Docs
    /\ data = Render(doc)
    /\ pos = 1
    /\ components = <<>>
    /\ pc = "parsing"
    /\ ret = [tag |-> "None"]
    /\ BuilderIdle
    /\ ConvIdle

\* One iteration of many1 in which alt succeeds through the named recognizer.
\* (many1 refuses an element that consumed nothing: see Return.)
Advance(a, name) ==
    /\ a.tag = "Ok"
    /\ a.by = name
    /\ a.res.pos > pos
    /\ pos' = a.res.pos
    /\ components' = Append(components, a.res.val)

HlsStreamInfo ==
    /\ pc = "parsing"
    /\ Advance(alt(data, pos), "hls_stream_info")
    /\ UNCHANGED <<doc, data, pc, ret>>
    /\ UNCHANGED builderVars
    /\ UNCHANGED convVars

HlsIframeStreamInfo ==
    /\ pc = "parsing"
    /\ Advance(alt(data, pos), "hls_iframe_stream_info")
    /\ UNCHANGED <<doc, data, pc, ret>>
    /\ UNCHANGED builderVars
    /\ UNCHANGED convVars

HlsAudio ==
    /\ pc = "parsing"
    /\ Advance(alt(data, pos), "hls_audio")
    /\ UNCHANGED <<doc, data, pc, ret>>
    /\ UNCHANGED builderVars
    /\ UNCHANGED convVars

HlsVersion ==
    /\ pc = "parsing"
    /\ Advance(alt(data, pos), "hls_version")
    /\ UNCHANGED <<doc, data, pc, ret>>
    /\ UNCHANGED builderVars
    /\ UNCHANGED convVars

HlsIndependentSegments ==
    /\ pc = "parsing"
    /\ Advance(alt(data, pos), "hls_independent_segments")
    /\ UNCHANGED <<doc, data, pc, ret>>
    /\ UNCHANGED builderVars
    /\ UNCHANGED convVars

HlsHeader ==
    /\ pc = "parsing"
    /\ Advance(alt(data, pos), "hls_header")
    /\ UNCHANGED <<doc, data, pc, ret>>
    /\ UNCHANGED builderVars
    /\ UNCHANGED convVars

\* A conversion inside a recognizer panics: parse_hls_playlist never returns.
Unwind ==
    /\ pc = "parsing"
    /\ alt(data, pos).tag = "Panic"
    /\ pc' = "done"
    /\ ret' = [tag |-> "Panic"]
    /\ UNCHANGED <<doc, data, pos, components>>
    /\ UNCHANGED builderVars
    /\ UNCHANGED convVars

Stop(a) ==
    /\ a.tag = "Err" \/ (a.tag = "Ok" /\ a.res.pos = pos)
    /\ ret' = IF a.tag = "Err" THEN Outcome(data, pos, components)
              ELSE [tag |-> "Err", kind |-> "Many1"]

\* many1 stops; all_consuming and the fold decide what is returned.
Return ==
    /\ pc = "parsing"
    /\ Stop(alt(data, pos))
    /\ pc' = "done"
    /\ UNCHANGED <<doc, data, pos, components>>
    /\ UNCHANGED builderVars
    /\ UNCHANGED convVars

Next ==
    \/ HlsStreamInfo
    \/ HlsIframeStreamInfo
    \/ HlsAudio
    \/ HlsVersion
    \/ HlsIndependentSegments
    \/ HlsHeader
    \/ Unwind
    \/ Return

Spec == Init /\ [][Next]_vars

\* parse_hls_playlist is sequential code: a call that can take a step takes it.
\* This is WF_vars(Next) written out: a step of Next is possible exactly while
\* pc = "parsing", where alt returns a success, a recoverable error or a panic and
\* one of the actions takes each.
TerminationSpec == Spec /\ ([]<>(pc # "parsing") \/ []<><<Next>>_vars)

----------------------------------------------------------------------------
(* The builders of builders.rs.  An Option is a sequence of at most one    *)
(* element.  incorporate consumes the builder and returns it, or panics;   *)
(* build consumes it and returns an anyhow::Result.                        *)

None == <<>>
Some(v) == <<v>>

Returned(self) == [tag |-> "Returned", self |-> self]
\* unreachable!("unhandled param {param_name} passed from parser")
Unreachable(param_name) == [tag |-> "Panic", by |-> "unreachable", key |-> param_name]
\* Result::expect on an Err, or the panic of the conversion itself.
ExpectFailed(key, c) ==
    [tag |-> "Panic", by |-> IF c.tag = "Panic" THEN "index" ELSE "expect", key |-> key]

\* self.<field> = Some(<conversion>.expect(..)); self
SetExpect(self, field, c, key) ==
    IF c.tag = "Ok" THEN Returned([self EXCEPT ![field] = Some(c.val)])
    ELSE ExpectFailed(key, c)

AudioBuilder_default ==
    [group_id |-> None, name |-> None, language |-> None, default |-> None,
     auto_select |-> None, channel_info |-> None, uri |-> None]

\* An AudioBuilder::incorporate in which a GROUP-ID already set is kept.
AudioBuilder_incorporate_first_wins(self, param_name, param_value) ==
    CASE param_name = P_GROUP_ID ->
            Returned(IF self.group_id = None
                     THEN [self EXCEPT !.group_id = Some(param_value)] ELSE self)
      [] param_name = P_NAME -> Returned([self EXCEPT !.name = Some(param_value)])
      [] param_name = P_LANGUAGE -> Returned([self EXCEPT !.language = Some(param_value)])
      [] param_name = P_DEFAULT ->
            SetExpect(self, "default", bool_from_param_str(param_value), P_DEFAULT)
      [] param_name = P_AUTOSELECT ->
            SetExpect(self, "auto_select", bool_from_param_str(param_value), P_AUTOSELECT)
      [] param_name = P_CHANNELS ->
            SetExpect(self, "channel_info", AudioChannelInfo_from_str(param_value), P_CHANNELS)
      [] param_name = P_URI -> Returned([self EXCEPT !.uri = Some(param_value)])
      [] OTHER -> Unreachable(param_name)

AudioBuilder_incorporate(self, param_name, param_value) ==
    CASE param_name = P_GROUP_ID -> Returned([self EXCEPT !.group_id = Some(param_value)])
      [] param_name = P_NAME -> Returned([self EXCEPT !.name = Some(param_value)])
      [] param_name = P_LANGUAGE -> Returned([self EXCEPT !.language = Some(param_value)])
      [] param_name = P_DEFAULT ->
            SetExpect(self, "default", bool_from_param_str(param_value), P_DEFAULT)
      [] param_name = P_AUTOSELECT ->
            SetExpect(self, "auto_select", bool_from_param_str(param_value), P_AUTOSELECT)
      [] param_name = P_CHANNELS ->
            SetExpect(self, "channel_info", AudioChannelInfo_from_str(param_value), P_CHANNELS)
      [] param_name = P_URI -> Returned([self EXCEPT !.uri = Some(param_value)])
      [] OTHER -> Unreachable(param_name)

\* with_context(|| format!("{error_prefix}{P_..}"))? on an unset slot.
Missing(error_prefix, key) == [tag |-> "Err", msg |-> error_prefix \o key]

\* An AudioBuilder::build that looks at uri first.
AudioBuilder_build_uri_first(self) ==
    IF self.uri = None THEN Missing(Chars("missing HLS audio param "), P_URI)
    ELSE IF self.group_id = None THEN Missing(Chars("missing HLS audio param "), P_GROUP_ID)
    ELSE IF self.name = None THEN Missing(Chars("missing HLS audio param "), P_NAME)
    ELSE IF self.language = None THEN Missing(Chars("missing HLS audio param "), P_LANGUAGE)
    ELSE IF self.default = None THEN Missing(Chars("missing HLS audio param "), P_DEFAULT)
    ELSE IF self.auto_select = None
         THEN Missing(Chars("missing HLS audio param "), P_AUTOSELECT)
    ELSE IF self.channel_info = None
         THEN Missing(Chars("missing HLS audio param "), P_CHANNELS)
    ELSE [tag |-> "Ok",
          val |-> [group_id |-> self.group_id[1], name |-> self.name[1],
                   language |-> self.language[1], default |-> self.default[1],
                   auto_select |-> self.auto_select[1],
                   channel_info |-> self.channel_info[1], uri |-> self.uri[1]]]

\* The fields of the struct literal are evaluated in the order written; the first
\* "?" on an unset slot returns.
AudioBuilder_build(self) ==
    IF self.group_id = None THEN Missing(Chars("missing HLS audio param "), P_GROUP_ID)
    ELSE IF self.name = None THEN Missing(Chars("missing HLS audio param "), P_NAME)
    ELSE IF self.language = None THEN Missing(Chars("missing HLS audio param "), P_LANGUAGE)
    ELSE IF self.default = None THEN Missing(Chars("missing HLS audio param "), P_DEFAULT)
    ELSE IF self.auto_select = None
         THEN Missing(Chars("missing HLS audio param "), P_AUTOSELECT)
    ELSE IF self.channel_info = None
         THEN Missing(Chars("missing HLS audio param "), P_CHANNELS)
    ELSE IF self.uri = None THEN Missing(Chars("missing HLS audio param "), P_URI)
    ELSE [tag |-> "Ok",
          val |-> [group_id |-> self.group_id[1], name |-> self.name[1],
                   language |-> self.language[1], default |-> self.default[1],
                   auto_select |-> self.auto_select[1],
                   channel_info |-> self.channel_info[1], uri |-> self.uri[1]]]

StreamInfoCommonBuilder_default ==
    [bandwidth |-> None, codecs |-> None, resolution |-> None, video_range |-> None,
     uri |-> None]

\* Ok(()) with the slot written, Err for a key that is not a common one, or a panic.
StoredExpect(self, field, c, key) ==
    IF c.tag = "Ok" THEN [tag |-> "Ok", self |-> [self EXCEPT ![field] = Some(c.val)]]
    ELSE ExpectFailed(key, c)

StreamInfoCommonBuilder_incorporate(self, param_name, param_value) ==
    CASE param_name = P_BANDWIDTH ->
            StoredExpect(self, "bandwidth", usize_from_str(param_value), P_BANDWIDTH)
      [] param_name = P_CODECS ->
            [tag |-> "Ok", self |-> [self EXCEPT !.codecs = Some(Split(param_value, ","))]]
      [] param_name = P_RESOLUTION ->
            StoredExpect(self, "resolution", Resolution_from_str(param_value), P_RESOLUTION)
      [] param_name = P_VIDEO_RANGE ->
            [tag |-> "Ok", self |-> [self EXCEPT !.video_range = Some(param_value)]]
      [] param_name = P_URI ->
            [tag |-> "Ok", self |-> [self EXCEPT !.uri = Some(param_value)]]
      [] OTHER -> Err

StreamInfoCommonBuilder_build(self) ==
    IF self.bandwidth = None THEN Missing(Chars("missing HLS video param "), P_BANDWIDTH)
    ELSE IF self.codecs = None THEN Missing(Chars("missing HLS video param "), P_CODECS)
    ELSE IF self.resolution = None
         THEN Missing(Chars("missing HLS video param "), P_RESOLUTION)
    ELSE IF self.video_range = None
         THEN Missing(Chars("missing HLS video param "), P_VIDEO_RANGE)
    ELSE IF self.uri = None THEN Missing(Chars("missing HLS video param "), P_URI)
    ELSE [tag |-> "Ok",
          val |-> [bandwidth |-> self.bandwidth[1], codecs |-> self.codecs[1],
                   resolution |-> self.resolution[1],
                   video_range |-> self.video_range[1], uri |-> self.uri[1]]]

StreamInfoBuilder_default ==
    [common |-> StreamInfoCommonBuilder_default, average_bandwidth |-> None,
     frame_rate |-> None, audio_codec |-> None, closed_captions |-> None]

\* The body of StreamInfoBuilder::build once self.common.build() has returned.
StreamInfoBuilt(self, common) ==
    IF common.tag # "Ok" THEN common
    ELSE IF self.average_bandwidth = None
         THEN Missing(Chars("missing HLS video param "), P_AVERAGE_BANDWIDTH)
    ELSE IF self.frame_rate = None
         THEN Missing(Chars("missing HLS video param "), P_FRAME_RATE)
    ELSE IF self.audio_codec = None THEN Missing(Chars("missing HLS video param "), P_AUDIO)
    ELSE IF self.closed_captions = None
         THEN Missing(Chars("missing HLS video param "), P_CLOSED_CAPTIONS)
    ELSE [tag |-> "Ok",
          val |-> [common |-> common.val,
                   average_bandwidth |-> self.average_bandwidth[1],
                   frame_rate |-> self.frame_rate[1],
                   audio_codec |-> self.audio_codec[1],
                   closed_captions |-> self.closed_captions[1]]]

StreamInfoBuilder_build(self) ==
    StreamInfoBuilt(self, StreamInfoCommonBuilder_build(self.common))

\* A StreamInfoBuilder::incorporate that takes a failed conversion of a common key
\* for "not a common key".
StreamInfoOwn_failure_is_not_mine(self, param_name, param_value, c) ==
    IF c.tag = "Ok" THEN Returned([self EXCEPT !.common = c.self])
    ELSE CASE param_name = P_AVERAGE_BANDWIDTH ->
                SetExpect(self, "average_bandwidth", usize_from_str(param_value),
                          P_AVERAGE_BANDWIDTH)
           [] param_name = P_FRAME_RATE ->
                SetExpect(self, "frame_rate", f32_from_str(param_value), P_FRAME_RATE)
           [] param_name = P_AUDIO ->
                Returned([self EXCEPT !.audio_codec = Some(param_value)])
           [] param_name = P_CLOSED_CAPTIONS ->
                Returned([self EXCEPT !.closed_captions = Some(param_value)])
           [] OTHER -> Unreachable(param_name)

\* The body of StreamInfoBuilder::incorporate once self.common.incorporate has
\* returned c: the builder's own keys are tried only on its Err.
StreamInfoOwn(self, param_name, param_value, c) ==
    IF c.tag = "Panic" THEN c
    ELSE IF c.tag = "Ok" THEN Returned([self EXCEPT !.common = c.self])
    ELSE CASE param_name = P_AVERAGE_BANDWIDTH ->
                SetExpect(self, "average_bandwidth", usize_from_str(param_value),
                          P_AVERAGE_BANDWIDTH)
           [] param_name = P_FRAME_RATE ->
                SetExpect(self, "frame_rate", f32_from_str(param_value), P_FRAME_RATE)
           [] param_name = P_AUDIO ->
                Returned([self EXCEPT !.audio_codec = Some(param_value)])
           [] param_name = P_CLOSED_CAPTIONS ->
                Returned([self EXCEPT !.closed_captions = Some(param_value)])
           [] OTHER -> Unreachable(param_name)

StreamInfoBuilder_incorporate(self, param_name, param_value) ==
    StreamInfoOwn(self, param_name, param_value,
                  StreamInfoCommonBuilder_incorporate(self.common, param_name, param_value))

IframeStreamInfoBuilder_default == [common |-> StreamInfoCommonBuilder_default]

IframeStreamInfoBuilt(common) ==
    IF common.tag # "Ok" THEN common ELSE [tag |-> "Ok", val |-> [common |-> common.val]]

IframeStreamInfoBuilder_build(self) ==
    IframeStreamInfoBuilt(StreamInfoCommonBuilder_build(self.common))

IframeStreamInfoOwn(self, param_name, c) ==
    IF c.tag = "Panic" THEN c
    ELSE IF c.tag = "Ok" THEN Returned([self EXCEPT !.common = c.self])
    ELSE Unreachable(param_name)

IframeStreamInfoBuilder_incorporate(self, param_name, param_value) ==
    IframeStreamInfoOwn(self, param_name,
                        StreamInfoCommonBuilder_incorporate(self.common, param_name, param_value))

----------------------------------------------------------------------------
(* The builders as a state machine: a builder that earlier incorporate     *)
(* calls have filled but for a few slots is offered more (key, value)      *)
(* pairs and is then built.                                                *)

\* The slots an initial builder may lack (the default builder lacks all).
MaxMissing == 2
\* The incorporate calls made on an initial builder.
MaxIncorporate == 2

Kinds == {"audio", "stream", "iframe"}

Incorporate(kind, self, param_name, param_value) ==
    CASE kind = "audio" -> AudioBuilder_incorporate(self, param_name, param_value)
      [] kind = "stream" -> StreamInfoBuilder_incorporate(self, param_name, param_value)
      [] kind = "iframe" -> IframeStreamInfoBuilder_incorporate(self, param_name, param_value)

Default(kind) ==
    CASE kind = "audio" -> AudioBuilder_default
      [] kind = "stream" -> StreamInfoBuilder_default
      [] kind = "iframe" -> IframeStreamInfoBuilder_default

\* The (key, raw value) pairs that fill every slot of a builder, in its check order.
AudioPairs ==
    << <<P_GROUP_ID, Chars("aac")>>, <<P_NAME, Chars("En")>>, <<P_LANGUAGE, Chars("en")>>,
       <<P_DEFAULT, Chars("YES")>>, <<P_AUTOSELECT, Chars("NO")>>,
       <<P_CHANNELS, Chars("6")>>, <<P_URI, Chars("a.m3u8")>> >>
CommonPairs ==
    << <<P_BANDWIDTH, Chars("100")>>, <<P_CODECS, Chars("mp4a,hvc1")>>,
       <<P_RESOLUTION, Chars("640x360")>>, <<P_VIDEO_RANGE, Chars("SDR")>>,
       <<P_URI, Chars("v.m3u8")>> >>
StreamPairs ==
    CommonPairs \o
    << <<P_AVERAGE_BANDWIDTH, Chars("90")>>, <<P_FRAME_RATE, Chars("23.97")>>,
       <<P_AUDIO, Chars("atmos")>>, <<P_CLOSED_CAPTIONS, Chars("NONE")>> >>

Pairs(kind) ==
    CASE kind = "audio" -> AudioPairs
      [] kind = "stream" -> StreamPairs
      [] kind = "iframe" -> CommonPairs

\* The builder after incorporating the pairs from the i-th on, those in missing
\* left out.
RECURSIVE Populate(_, _, _, _, _)
Populate(kind, self, pairs, missing, i) ==
    IF i > Len(pairs) THEN self
    ELSE Populate(kind,
                  IF i \in missing THEN self
                  ELSE Incorporate(kind, self, pairs[i][1], pairs[i][2]).self,
                  pairs, missing, i + 1)

MissingSets(n) == {S \in SUBSET (1..n) : Cardinality(S) <= MaxMissing} \cup {1..n}

Keys ==
    {P_AUDIO, P_AUTOSELECT, P_AVERAGE_BANDWIDTH, P_BANDWIDTH, P_CHANNELS,
     P_CLOSED_CAPTIONS, P_CODECS, P_DEFAULT, P_FRAME_RATE, P_GROUP_ID, P_LANGUAGE,
     P_NAME, P_RESOLUTION, P_URI, P_VIDEO_RANGE, Chars("SUBTITLES")}

Values == {Chars("YES"), Chars("2"), Chars("16/JOC"), Chars("960x540")}

ParserIdle ==
    /\ doc = <<>> /\ data = <<>> /\ pos = 1 /\ components = <<>>
    /\ pc = "idle" /\ ret = [tag |-> "None"]

BInit ==
    /\ ParserIdle
    /\ bkind \in Kinds
    /\ \E missing \in MissingSets(Len(Pairs(bkind))) :
          builder = Populate(bkind, Default(bkind), Pairs(bkind), missing, 1)
    /\ bstate = "open"
    /\ bret = [tag |-> "None"]
    /\ last = NoCall
    /\ nInc = 0
    /\ ConvIdle

\* incorporate returned the builder, or unwound with it.
Incorporated(r, param_name, param_value) ==
    /\ last' = [op |-> "incorporate", key |-> param_name, value |-> param_value,
                outcome |-> IF r.tag = "Returned" THEN "returned" ELSE r.by]
    /\ builder' = IF r.tag = "Returned" THEN r.self ELSE NoBuilder
    /\ bstate' = IF r.tag = "Returned" THEN "open" ELSE "panicked"
    /\ nInc' = nInc + 1

AudioBuilderIncorporate ==
    /\ bkind = "audio" /\ bstate = "open" /\ nInc < MaxIncorporate
    /\ \E param_name \in Keys, param_value \in Values :
          Incorporated(AudioBuilder_incorporate(builder, param_name, param_value),
                       param_name, param_value)
    /\ UNCHANGED <<bkind, bret>>
    /\ UNCHANGED parserVars
    /\ UNCHANGED convVars

StreamInfoBuilderIncorporate ==
    /\ bkind = "stream" /\ bstate = "open" /\ nInc < MaxIncorporate
    /\ \E param_name \in Keys, param_value \in Values :
          Incorporated(StreamInfoBuilder_incorporate(builder, param_name, param_value),
                       param_name, param_value)
    /\ UNCHANGED <<bkind, bret>>
    /\ UNCHANGED parserVars
    /\ UNCHANGED convVars

IframeStreamInfoBuilderIncorporate ==
    /\ bkind = "iframe" /\ bstate = "open" /\ nInc < MaxIncorporate
    /\ \E param_name \in Keys, param_value \in Values :
          Incorporated(IframeStreamInfoBuilder_incorporate(builder, param_name, param_value),
                       param_name, param_value)
    /\ UNCHANGED <<bkind, bret>>
    /\ UNCHANGED parserVars
    /\ UNCHANGED convVars

\* build consumes the builder; builder keeps what was consumed.
AudioBuilderBuild ==
    /\ bkind = "audio" /\ bstate = "open"
    /\ bret' = AudioBuilder_build(builder)
    /\ bstate' = "built"
    /\ UNCHANGED <<bkind, builder, last, nInc>>
    /\ UNCHANGED parserVars
    /\ UNCHANGED convVars

StreamInfoBuilderBuild ==
    /\ bkind = "stream" /\ bstate = "open"
    /\ bret' = StreamInfoBuilder_build(builder)
    /\ bstate' = "built"
    /\ UNCHANGED <<bkind, builder, last, nInc>>
    /\ UNCHANGED parserVars
    /\ UNCHANGED convVars

IframeStreamInfoBuilderBuild ==
    /\ bkind = "iframe" /\ bstate = "open"
    /\ bret' = IframeStreamInfoBuilder_build(builder)
    /\ bstate' = "built"
    /\ UNCHANGED <<bkind, builder, last, nInc>>
    /\ UNCHANGED parserVars
    /\ UNCHANGED convVars

BNext ==
    \/ AudioBuilderIncorporate
    \/ StreamInfoBuilderIncorporate
    \/ IframeStreamInfoBuilderIncorporate
    \/ AudioBuilderBuild
    \/ StreamInfoBuilderBuild
    \/ IframeStreamInfoBuilderBuild

BuilderSpec == BInit /\ [][BNext]_vars

----------------------------------------------------------------------------
(* The conversions and the comparison of types.rs, and the parameter       *)
(* parser of parsers.rs, called on their own.                              *)

bool_cmp(a, b) == IF a = b THEN "Equal" ELSE IF b THEN "Less" ELSE "Greater"

\* An Ord::cmp for AudioChannelInfo that looks at joc first.
AudioChannelInfo_cmp_joc_first(self, other) ==
    IF self.joc # other.joc THEN bool_cmp(self.joc, other.joc)
    ELSE IF self.channels < other.channels THEN "Less"
    ELSE IF self.channels > other.channels THEN "Greater"
    ELSE "Equal"

AudioChannelInfo_cmp(self, other) ==
    IF self.channels < other.channels THEN "Less"
    ELSE IF self.channels > other.channels THEN "Greater"
    ELSE bool_cmp(self.joc, other.joc)

usize_cmp(a, b) == IF a < b THEN "Less" ELSE IF a > b THEN "Greater" ELSE "Equal"

\* The derived PartialOrd: the fields in declaration order, the first that differs.
AudioChannelInfo_partial_cmp(self, other) ==
    IF usize_cmp(self.channels, other.channels) # "Equal"
    THEN Some(usize_cmp(self.channels, other.channels))
    ELSE Some(bool_cmp(self.joc, other.joc))

\* Ord::cmp for Resolution: equal widths are Equal; otherwise the heights decide.
Resolution_cmp(self, other) ==
    IF usize_cmp(self.width, other.width) = "Equal" THEN usize_cmp(self.width, other.width)
    ELSE usize_cmp(self.height, other.height)

\* The derived PartialOrd: width, then height.
Resolution_partial_cmp(self, other) ==
    IF usize_cmp(self.width, other.width) # "Equal"
    THEN Some(usize_cmp(self.width, other.width))
    ELSE Some(usize_cmp(self.height, other.height))

\* The derived PartialEq: field by field.
Resolution_eq(self, other) == self.width = other.width /\ self.height = other.height

\* The segments a raw value is joined from.
MaxSegments == 3

RECURSIVE Join(_, _)
Join(segs, sep) ==
    IF Len(segs) = 1 THEN Chars(segs[1])
    ELSE Chars(segs[1]) \o <<sep>> \o Join(Tail(segs), sep)

SegmentLists(S) == SeqsUpTo(S, MaxSegments) \ {<<>>}

\* A call of a from_str: its argument, and the segments and separator it is made of.
FromStrCalls(fn, S, sep) ==
    {[fn |-> fn, arg |-> Join(segs, sep), segs |-> segs] : segs \in SegmentLists(S)}

ChannelsCalls == FromStrCalls("AudioChannelInfo::from_str", {"2", "16", "JOC", "joc", "a", ""}, "/")
ResolutionCalls == FromStrCalls("Resolution::from_str", {"960", "540", "a", ""}, "x")
CodecsCalls == FromStrCalls("stream_param_codec", {"mp4a", " hvc1", "avc1 ", ""}, ",")

ChannelInfos == [channels : {1, 2, 16}, joc : BOOLEAN]
CmpCalls == {[fn |-> "AudioChannelInfo::cmp", self |-> a, other |-> b] :
                a \in ChannelInfos, b \in ChannelInfos}

Resolutions == [width : {640, 960, 1280}, height : {360, 540}]
ResolutionCmpCalls == {[fn |-> "Resolution::cmp", self |-> a, other |-> b] :
                          a \in Resolutions, b \in Resolutions}

Blanks == {"", " "}

\* A parameter as text: optional blanks before the key, around "=" and after the
\* value, an optional comma, and what follows the parameter.
ParamText(c) ==
    Chars(c.lead) \o c.param_name \o Chars(c.sp1) \o <<"=">> \o Chars(c.sp2)
    \o (IF c.enclosed_by = "DoubleQuotes" THEN <<"\"">> \o Chars(c.value) \o <<"\"">>
        ELSE Chars(c.value))
    \o Chars(c.sp3) \o Chars(c.comma) \o Chars(c.rest)

ParamShapes(param_name, enclosed_by, values) ==
    [fn : {"comma_terminated_param"}, param_name : {param_name},
     enclosed_by : {enclosed_by}, value : values,
     lead : Blanks, sp1 : Blanks, sp2 : Blanks, sp3 : Blanks,
     comma : {"", ","}, rest : {"", "\nu"}]

ParamCalls ==
    ParamShapes(P_VIDEO_RANGE, "None", {"PQ", "SDR"})
    \cup ParamShapes(P_AUDIO, "DoubleQuotes", {"aac", "a, b", ""})

Calls ==
    ChannelsCalls \cup ResolutionCalls \cup CodecsCalls \cup CmpCalls \cup ParamCalls
    \cup ResolutionCmpCalls

CInit ==
    /\ ParserIdle
    /\ BuilderIdle
    /\ call \in Calls
    /\ out = [tag |-> "None"]

AudioChannelInfoFromStr ==
    /\ call.fn = "AudioChannelInfo::from_str" /\ out.tag = "None"
    /\ out' = AudioChannelInfo_from_str(call.arg)
    /\ UNCHANGED <<call, parserVars, builderVars>>

ResolutionFromStr ==
    /\ call.fn = "Resolution::from_str" /\ out.tag = "None"
    /\ out' = Resolution_from_str(call.arg)
    /\ UNCHANGED <<call, parserVars, builderVars>>

StreamParamCodec ==
    /\ call.fn = "stream_param_codec" /\ out.tag = "None"
    /\ out' = codecs_from_str(call.arg)
    /\ UNCHANGED <<call, parserVars, builderVars>>

AudioChannelInfoCmp ==
    /\ call.fn = "AudioChannelInfo::cmp" /\ out.tag = "None"
    /\ out' = [tag |-> "Ordering",
               cmp |-> AudioChannelInfo_cmp(call.self, call.other),
               partial_cmp |-> AudioChannelInfo_partial_cmp(call.self, call.other)]
    /\ UNCHANGED <<call, parserVars, builderVars>>

ResolutionCmp ==
    /\ call.fn = "Resolution::cmp" /\ out.tag = "None"
    /\ out' = [tag |-> "Ordering",
               cmp |-> Resolution_cmp(call.self, call.other),
               partial_cmp |-> Resolution_partial_cmp(call.self, call.other),
               eq |-> Resolution_eq(call.self, call.other)]
    /\ UNCHANGED <<call, parserVars, builderVars>>

CommaTerminatedParam ==
    /\ call.fn = "comma_terminated_param" /\ out.tag = "None"
    /\ out' = comma_terminated_param(ParamText(call), 1, call.param_name, call.enclosed_by)
    /\ UNCHANGED <<call, parserVars, builderVars>>

CNext ==
    \/ AudioChannelInfoFromStr
    \/ ResolutionFromStr
    \/ StreamParamCodec
    \/ AudioChannelInfoCmp
    \/ ResolutionCmp
    \/ CommaTerminatedParam

ConvSpec == CInit /\ [][CNext]_vars

----------------------------------------------------------------------------
(* What the text says, read line by line without the parser *)

HasPrefix(l, t) == Len(l) >= Len(t) /\ SubSeq(l, 1, Len(t)) = t

StripCR(l) == IF l # <<>> /\ l[Len(l)] = "\r" THEN SubSeq(l, 1, Len(l) - 1) ELSE l

KindOfLine(l) ==
    IF \A i \in 1..Len(l) : l[i] \in {" ", "\t"} THEN "blank"
    ELSE IF HasPrefix(l, Chars("#EXT-X-STREAM-INF:")) THEN "stream"
    ELSE IF HasPrefix(l, Chars("#EXT-X-I-FRAME-STREAM-INF:")) THEN "iframe"
    ELSE IF HasPrefix(l, Chars("#EXT-X-MEDIA:")) THEN "audio"
    ELSE IF HasPrefix(l, Chars("#EXT-X-VERSION:")) THEN "version"
    ELSE IF HasPrefix(l, Chars("#EXT-X-INDEPENDENT-SEGMENTS")) THEN "independent-segments"
    ELSE IF HasPrefix(l, Chars("#EXTM3U")) THEN "header"
    ELSE IF HasPrefix(l, Chars("#EXT-X-")) THEN "other-tag"
    ELSE IF HasPrefix(l, <<"#">>) THEN "comment"
    ELSE "text"

\* The lines of d from position p on: each with its text (line ending excluded),
\* where it starts and ends, and its kind.  The line after a variant-stream
\* attribute line is that stream's URI line, whatever it holds.
RECURSIVE ScanLines(_, _, _)
LineAt(d, p, e, afterStream) ==
    [text |-> StripCR(SubSeq(d, p, e - 1)), start |-> p, end |-> e,
     kind |-> IF afterStream THEN "uri" ELSE KindOfLine(StripCR(SubSeq(d, p, e - 1)))]

ScanRest(d, line) == <<line>> \o ScanLines(d, line.end + 1, line.kind = "stream")

ScanLines(d, p, afterStream) ==
    IF p > Len(d) THEN <<>>
    ELSE ScanRest(d, LineAt(d, p, FindFirst(d, p, {"\n"}), afterStream))

LinesOf(d) == ScanLines(d, 1, FALSE)

IndicesOfKind(lines, kind) == {i \in 1..Len(lines) : lines[i].kind = kind}

\* The elements of a finite set of numbers in increasing order.
RECURSIVE Sorted(_)
Sorted(S) ==
    IF S = {} THEN <<>>
    ELSE LET m == CHOOSE x \in S : \A y \in S : x <= y
         IN  <<m>> \o Sorted(S \ {m})

KnownLine(l) == \E k \in 1..Len(KnownDecls) : KnownDecls[k].line = l
RecordOfLine(l) == KnownDecls[CHOOSE k \in 1..Len(KnownDecls) : KnownDecls[k].line = l].rec

WithUri(rec, u) ==
    [rec EXCEPT !.common = [bandwidth |-> @.bandwidth, codecs |-> @.codecs,
                            resolution |-> @.resolution, video_range |-> @.video_range,
                            uri |-> u]]

UriLineAfter(lines, i) == IF i < Len(lines) THEN lines[i + 1].text ELSE <<>>

\* The record the i-th line declares.
DeclaredRecord(lines, i) ==
    IF ~KnownLine(lines[i].text) THEN "unknown"
    ELSE IF lines[i].kind = "stream"
         THEN WithUri(RecordOfLine(lines[i].text), UriLineAfter(lines, i))
         ELSE RecordOfLine(lines[i].text)

\* The records the declarations of one kind declare, in source order.
DeclaredInOrder(lines, idx) == [k \in 1..Len(idx) |-> DeclaredRecord(lines, idx[k])]
DeclaredRecords(lines, kind) == DeclaredInOrder(lines, Sorted(IndicesOfKind(lines, kind)))

KnownVersions == <<[line |-> Chars("#EXT-X-VERSION:5"), v |-> 5],
                   [line |-> Chars("#EXT-X-VERSION:12"), v |-> 12]>>
VersionOfLine(l) == KnownVersions[CHOOSE k \in 1..Len(KnownVersions) : KnownVersions[k].line = l].v

LastOf(S) == CHOOSE x \in S : \A y \in S : y <= x
DeclaredVersionAt(lines, idx) == IF idx = {} THEN 0 ELSE VersionOfLine(lines[LastOf(idx)].text)
DeclaredVersion(lines) == DeclaredVersionAt(lines, IndicesOfKind(lines, "version"))

Accepted == pc = "done" /\ ret.tag = "Ok"

----------------------------------------------------------------------------
(* Claims about the parser *)

\* C2: for every accepted document, each of the three sequences holds exactly the
\* records of the declarations of its kind in the text, in source order (so the
\* lengths are the numbers of declarations).
SequencesAre(lines, playlist) ==
    /\ playlist.audio_streams = DeclaredRecords(lines, "audio")
    /\ playlist.streams = DeclaredRecords(lines, "stream")
    /\ playlist.iframe_streams = DeclaredRecords(lines, "iframe")

C2_CountsAndOrder == Accepted => SequencesAre(LinesOf(data), ret.playlist)

\* An accepted document with two different audio declarations.
C2_Witness ==
    /\ Accepted
    /\ Len(ret.playlist.audio_streams) = 2
    /\ ret.playlist.audio_streams[1] # ret.playlist.audio_streams[2]

\* C8: the uri of the k-th variant stream of an accepted document is the whole text
\* of the line after the k-th variant-stream attribute line, line ending excluded;
\* no attribute supplies it.
UrisAre(lines, idx, streams) ==
    /\ Len(streams) = Len(idx)
    /\ \A k \in 1..Len(idx) : streams[k].common.uri = UriLineAfter(lines, idx[k])

UrisFollow(lines, streams) == UrisAre(lines, Sorted(IndicesOfKind(lines, "stream")), streams)

C8_UriIsNextLine == Accepted => UrisFollow(LinesOf(data), ret.playlist.streams)

\* An accepted variant stream whose next line is hdr10/unenc/1650k/vod.m3u8, and one
\* whose URI line ends in "\r\n".
C8_Witness ==
    /\ Accepted
    /\ Len(ret.playlist.streams) = 2
    /\ ret.playlist.streams[1].common.uri = Chars("hdr10/unenc/1650k/vod.m3u8")
    /\ ret.playlist.streams[2].common.uri = Chars("t.m3u8")

\* C9: the version of an accepted document is the integer of its last
\* #EXT-X-VERSION line, and 0 when it has none; no other line changes it.
C9_VersionIsLastDeclared == Accepted => ret.playlist.version = DeclaredVersion(LinesOf(data))

\* An accepted document with two version declarations, 5 and then 12.
C9_Witness ==
    /\ Accepted
    /\ Cardinality(IndicesOfKind(LinesOf(data), "version")) = 2
    /\ components[1] = [kind |-> "Version", v |-> 5]
    /\ ret.playlist.version = 12

\* C4: a document holding a line of free text or an #EXT-X- tag of an unknown kind
\* (not in the place of a variant stream's URI) is never accepted, and the head of
\* the stream never moves past that line.
Unrecognized(lines) == IndicesOfKind(lines, "text") \cup IndicesOfKind(lines, "other-tag")

StopsBefore(lines, bad) ==
    bad # {} =>
        /\ \A i \in bad : pos <= lines[i].start
        /\ pc = "done" => ret.tag # "Ok"

NotSkipped(lines) == StopsBefore(lines, Unrecognized(lines))

C4_UnrecognizedLineFails == NotSkipped(LinesOf(data))

\* A parse that took a declaration, met an unrecognized line and returned an error.
C4_Witness ==
    /\ pc = "done"
    /\ Unrecognized(LinesOf(data)) # {}
    /\ components # <<>>
    /\ ret.tag = "Err"

\* C3: parse_hls_playlist ends with a playlist, the whole input then consumed, or
\* else with a single error value and no playlist.
C3_AllOrNothing ==
    pc = "done" =>
        \/ ret.tag = "Ok" /\ pos = Len(data) + 1
        \/ ret.tag = "Err" /\ "playlist" \notin DOMAIN ret

\* C10: a document with comment lines (a "#" line no declaration matches) is parsed
\* as the document without them is: accepted when that one is, with the same
\* records and version.
RECURSIVE WithoutLines(_, _, _, _)
WithoutLines(d, lines, drop, i) ==
    IF i > Len(lines) THEN <<>>
    ELSE (IF i \in drop THEN <<>> ELSE SubSeq(d, lines[i].start, lines[i].end))
         \o WithoutLines(d, lines, drop, i + 1)

SameAs(expected) == expected.tag = "Ok" => ret = expected

CommentsIgnored(lines, comments) ==
    comments # {} => SameAs(parse_hls_playlist(WithoutLines(data, lines, comments, 1)))

CommentsOf(lines) == CommentsIgnored(lines, IndicesOfKind(lines, "comment"))

C10_CommentAccepted == pc = "done" => CommentsOf(LinesOf(data))

\* C1: a document whose attribute lines are permutations of lines that parse is
\* parsed as the document with those lines unpermuted is.
EndsInStreamLine(e) == LinesOf(Catalogue[e].text)[Len(LinesOf(Catalogue[e].text))].kind = "stream"

Unpermuted(dc) ==
    [i \in 1..Len(dc) |->
        IF Catalogue[dc[i]].permOf # 0 /\ ~(i > 1 /\ EndsInStreamLine(dc[i - 1]))
        THEN Catalogue[dc[i]].permOf
        ELSE dc[i]]

C1_PermutationParsesIdentically ==
    pc = "done" => SameAs(parse_hls_playlist(Render(Unpermuted(doc))))

----------------------------------------------------------------------------
(* Claims about the builders *)

\* The keys each declaration knows, and the order in which build is said to check
\* the slots they fill.
AudioOrder ==
    <<Chars("GROUP-ID"), Chars("NAME"), Chars("LANGUAGE"), Chars("DEFAULT"),
      Chars("AUTOSELECT"), Chars("CHANNELS"), Chars("URI")>>
CommonOrder ==
    <<Chars("BANDWIDTH"), Chars("CODECS"), Chars("RESOLUTION"), Chars("VIDEO-RANGE"),
      Chars("URI")>>
StreamOrder ==
    CommonOrder \o <<Chars("AVERAGE-BANDWIDTH"), Chars("FRAME-RATE"), Chars("AUDIO"),
                     Chars("CLOSED-CAPTIONS")>>

OrderOf(kind) ==
    CASE kind = "audio" -> AudioOrder
      [] kind = "stream" -> StreamOrder
      [] kind = "iframe" -> CommonOrder

KnownKeys(kind) == {OrderOf(kind)[i] : i \in 1..Len(OrderOf(kind))}

CommonSlots(c) == <<c.bandwidth, c.codecs, c.resolution, c.video_range, c.uri>>

\* The slots of a builder, and the fields of a record, in that order.
SlotsOf(kind, b) ==
    CASE kind = "audio" ->
            <<b.group_id, b.name, b.language, b.default, b.auto_select, b.channel_info,
              b.uri>>
      [] kind = "stream" ->
            CommonSlots(b.common) \o
            <<b.average_bandwidth, b.frame_rate, b.audio_codec, b.closed_captions>>
      [] kind = "iframe" -> CommonSlots(b.common)

EndsWith(s, t) == Len(s) >= Len(t) /\ SubSeq(s, Len(s) - Len(t) + 1, Len(s)) = t

\* C5: an incorporate call with a key the declaration does not know returns an
\* error value; the process is not aborted.
C5_UnknownKeyIsErrorValue ==
    (last.op = "incorporate" /\ last.key \notin KnownKeys(bkind)) => bstate # "panicked"

IsNumber(v) == v # <<>> /\ \A i \in 1..Len(v) : v[i] \in Digits
IsDecimal(v) ==
    /\ \E i \in 1..Len(v) : v[i] \in Digits
    /\ \A i \in 1..Len(v) : v[i] \in Digits \cup {"."}
    /\ Cardinality({i \in 1..Len(v) : v[i] = "."}) <= 1
IsWxH(v) ==
    \E i \in 1..Len(v) :
        v[i] = "x" /\ IsNumber(SubSeq(v, 1, i - 1)) /\ IsNumber(SubSeq(v, i + 1, Len(v)))
IsChannels(v) ==
    \/ IsNumber(v)
    \/ \E i \in 1..Len(v) :
        v[i] = "/" /\ IsNumber(SubSeq(v, 1, i - 1)) /\ SubSeq(v, i + 1, Len(v)) = Chars("JOC")

\* The raw value is not of the form the key's conversion takes.
Malformed(key, v) ==
    \/ key \in {Chars("BANDWIDTH"), Chars("AVERAGE-BANDWIDTH")} /\ ~IsNumber(v)
    \/ key = Chars("FRAME-RATE") /\ ~IsDecimal(v)
    \/ key \in {Chars("DEFAULT"), Chars("AUTOSELECT")} /\ v \notin {Chars("YES"), Chars("NO")}
    \/ key = Chars("RESOLUTION") /\ ~IsWxH(v)
    \/ key = Chars("CHANNELS") /\ ~IsChannels(v)

\* C6: an incorporate call with a known key whose raw value fails its conversion
\* returns an error value; the process is not aborted.
C6_BadValueIsErrorValue ==
    (/\ last.op = "incorporate"
     /\ last.key \in KnownKeys(bkind)
     /\ Malformed(last.key, last.value)) => bstate # "panicked"

\* The record r holds exactly what the slots hold.
Populated(slots, fields) ==
    /\ Len(fields) = Len(slots)
    /\ \A i \in 1..Len(slots) : slots[i] = <<fields[i]>>

FieldsOf(kind, r) ==
    CASE kind = "audio" ->
            <<r.group_id, r.name, r.language, r.default, r.auto_select, r.channel_info,
              r.uri>>
      [] kind = "stream" ->
            <<r.common.bandwidth, r.common.codecs, r.common.resolution,
              r.common.video_range, r.common.uri, r.average_bandwidth, r.frame_rate,
              r.audio_codec, r.closed_captions>>
      [] kind = "iframe" ->
            <<r.common.bandwidth, r.common.codecs, r.common.resolution,
              r.common.video_range, r.common.uri>>

FirstUnset(slots) ==
    CHOOSE i \in 1..Len(slots) : slots[i] = <<>> /\ \A j \in 1..(i - 1) : slots[j] # <<>>

\* C7: build returns the record holding every slot's value iff every slot is set,
\* and otherwise an error that names the key of the first unset slot in the
\* declaration's check order.
BuildIs(kind, slots, r) ==
    IF \A i \in 1..Len(slots) : slots[i] # <<>>
    THEN r.tag = "Ok" /\ Populated(slots, FieldsOf(kind, r.val))
    ELSE r.tag = "Err" /\ EndsWith(r.msg, <<" ">> \o OrderOf(kind)[FirstUnset(slots)])

C7_BuildAllOrFirstMissing ==
    bstate = "built" => BuildIs(bkind, SlotsOf(bkind, builder), bret)

\* An audio builder missing only URI was built, and URI was reported.
C7_Witness ==
    /\ bstate = "built" /\ bkind = "audio"
    /\ builder.uri = <<>>
    /\ \A i \in 1..(Len(AudioOrder) - 1) : SlotsOf("audio", builder)[i] # <<>>
    /\ bret = [tag |-> "Err", msg |-> Chars("missing HLS audio param URI")]

----------------------------------------------------------------------------
(* Claims about the conversions, the comparison and the parameter parser *)

CallReturned(fn) == call.fn = fn /\ out.tag # "None"

\* The numerals of the calls, read as numbers.
NumberOf(seg) ==
    CASE seg = "2" -> 2 [] seg = "16" -> 16 [] seg = "960" -> 960 [] seg = "540" -> 540

ChannelsAre(segs, r) ==
    /\ (Len(segs) = 1 /\ IsNumber(Chars(segs[1])))
          => r = [tag |-> "Ok", val |-> [channels |-> NumberOf(segs[1]), joc |-> FALSE]]
    /\ (Len(segs) = 2 /\ IsNumber(Chars(segs[1])) /\ segs[2] = "JOC")
          => r = [tag |-> "Ok", val |-> [channels |-> NumberOf(segs[1]), joc |-> TRUE]]
    /\ (r.tag = "Ok" /\ r.val.joc) => (Len(segs) = 2 /\ segs[2] = "JOC")

\* C11: a CHANNELS value N gives channels N and joc false, N/JOC gives channels N
\* and joc true, and no value of another shape gives joc true.
C11_JocIffSuffix ==
    CallReturned("AudioChannelInfo::from_str") => ChannelsAre(call.segs, out)

ResolutionIs(segs, r) ==
    IF Len(segs) = 2 /\ IsNumber(Chars(segs[1])) /\ IsNumber(Chars(segs[2]))
    THEN r = [tag |-> "Ok",
              val |-> [width |-> NumberOf(segs[1]), height |-> NumberOf(segs[2])]]
    ELSE r = [tag |-> "Err"]

\* C16: a RESOLUTION value converts iff it is <integer>x<integer> with one "x", to
\* that width and height; every other value is a conversion error, never a
\* success and never a panic.
C16_ResolutionShape ==
    CallReturned("Resolution::from_str") => ResolutionIs(call.segs, out)

Trimmed(s) ==
    LET inner == {i \in 1..Len(s) : s[i] \notin {" ", "\t", "\r", "\n"}}
    IN  IF inner = {} THEN <<>>
        ELSE SubSeq(s, CHOOSE i \in inner : \A j \in inner : i <= j,
                       CHOOSE i \in inner : \A j \in inner : j <= i)

\* C18: the codec list is the CODECS value split on ",", each element trimmed, in
\* source order with duplicates kept: one element per comma, plus one.
C18_CodecsSplitAndTrimmed ==
    CallReturned("stream_param_codec") =>
        out = [tag |-> "Ok",
               val |-> [i \in 1..Len(call.segs) |-> Trimmed(Chars(call.segs[i]))]]

\* C19: the parameter parser returns the value (what is between the quotes, or the
\* bare token) and stops after the optional comma, whatever blanks stand before
\* the key, around "=" and after the value.
C19_ValueExtracted ==
    CallReturned("comma_terminated_param") =>
        out = Ok(Len(ParamText(call)) - Len(call.rest) + 1, Chars(call.value))

OrderingOf(a, b) ==
    IF a.channels < b.channels \/ (a.channels = b.channels /\ ~a.joc /\ b.joc) THEN "Less"
    ELSE IF a = b THEN "Equal"
    ELSE "Greater"

\* C20: cmp orders AudioChannelInfo by channels ascending, then joc with false
\* before true, is Equal exactly on equal fields, and the derived partial_cmp
\* returns the same ordering.
C20_ChannelInfoOrder ==
    CallReturned("AudioChannelInfo::cmp") =>
        /\ out.cmp = OrderingOf(call.self, call.other)
        /\ (out.cmp = "Equal") = (call.self = call.other)
        /\ out.partial_cmp = <<out.cmp>>

\* Two infos with the same channels and different joc were compared, and the one
\* without joc came first.
C20_Witness ==
    /\ CallReturned("AudioChannelInfo::cmp")
    /\ call.self = [channels |-> 16, joc |-> FALSE]
    /\ call.other = [channels |-> 16, joc |-> TRUE]
    /\ out.cmp = "Less"

----------------------------------------------------------------------------
(* Claims about the dispatcher *)

\* What each recognizer returns at position p, tried on its own.
ResultsAt(d, p) == [k \in 1..Len(Recognizers) |-> Recognize(Recognizers[k], d, p)]

\* The recognizers that decide alt when reached: a success or a panic.
Deciding(res) == {k \in DOMAIN res : res[k].tag # "Err"}

\* What alt returns when it tries the recognizers in the given order.
AltInOrder(order, res) ==
    IF \A i \in DOMAIN order : res[order[i]].tag = "Err" THEN Err
    ELSE res[order[CHOOSE i \in DOMAIN order :
                        /\ res[order[i]].tag # "Err"
                        /\ \A j \in 1..(i - 1) : res[order[j]].tag = "Err"]]

Orders == Permutations(1..Len(Recognizers))

OrderFree(res) ==
    /\ Cardinality(Deciding(res)) <= 1
    /\ \A order \in Orders : AltInOrder(order, res) = AltInOrder(Identity(Len(res)), res)

AtLiteral(d, p, lit) == HasPrefix(SubSeq(d, p, Len(d)), lit)

\* The first position at or after p that holds no whitespace.
PastWhitespace(d, p) ==
    CHOOSE q \in p..(Len(d) + 1) :
        /\ q > Len(d) \/ d[q] \notin {" ", "\t", "\r", "\n"}
        /\ \A i \in p..(q - 1) : d[i] \in {" ", "\t", "\r", "\n"}

PlaylistOf(comps) == FoldComponents(comps, DefaultPlaylist)

NoDataStep(lit) ==
    (pc = "parsing" /\ AtLiteral(data, pos, lit) /\ pos' # pos) =>
        /\ pos' = PastWhitespace(data, pos + Len(lit))
        /\ PlaylistOf(components') = PlaylistOf(components)

\* C13: the step that recognizes #EXTM3U or #EXT-X-INDEPENDENT-SEGMENTS moves the
\* head past the literal and the whitespace after it, and the playlist the
\* elements fold to is the same before and after.
C13_NoDataLeavesPlaylist ==
    [][NoDataStep(Chars("#EXTM3U")) /\ NoDataStep(Chars("#EXT-X-INDEPENDENT-SEGMENTS"))]_vars

\* A header was recognized after a version declaration.
C13_Witness ==
    /\ Len(components) = 2
    /\ components[1] = [kind |-> "Version", v |-> 5]
    /\ components[2] = NoData
    /\ pos = Len(data) + 1

----------------------------------------------------------------------------
(* Claims about incorporate *)

CommonKeys == {CommonOrder[i] : i \in 1..Len(CommonOrder)}

OuterSlots(b) == <<b.average_bandwidth, b.frame_rate, b.audio_codec, b.closed_captions>>

\* One incorporate call on the variant-stream builder: a common key goes to the
\* common builder and nowhere else, and its failed conversion is the panic of the
\* conversion; any other key leaves the common builder alone.
Delegated(key, value) ==
    IF key \in CommonKeys
    THEN \/ /\ bstate' = "open"
            /\ OuterSlots(builder') = OuterSlots(builder)
            /\ ~Malformed(key, value)
         \/ /\ bstate' = "panicked"
            /\ last'.outcome \in {"expect", "index"}
            /\ Malformed(key, value)
    ELSE \/ /\ bstate' = "open"
            /\ builder'.common = builder.common
            /\ key \in KnownKeys("stream")
            /\ ~Malformed(key, value)
         \/ /\ bstate' = "panicked"
            /\ IF key \in KnownKeys("stream")
               THEN last'.outcome = "expect" /\ Malformed(key, value)
               ELSE last'.outcome = "unreachable"

\* C14: the variant-stream builder offers a key to the common builder first and
\* tries its own fields only for a key the common builder does not know; a common
\* key whose conversion fails is not tried on the outer fields and is not taken
\* for an unknown key.
C14_CommonKeysFirst ==
    [][(bkind = "stream" /\ nInc' = nInc + 1) => Delegated(last'.key, last'.value)]_vars

\* BANDWIDTH was offered with a value that is no number: the conversion's failure
\* ended the call.
C14_Witness ==
    /\ bkind = "stream" /\ bstate = "panicked"
    /\ last.key = Chars("BANDWIDTH") /\ last.value = Chars("YES")
    /\ last.outcome = "expect"

SlotOfKey(kind, key) == CHOOSE i \in 1..Len(OrderOf(kind)) : OrderOf(kind)[i] = key

RawKeys ==
    {Chars("GROUP-ID"), Chars("NAME"), Chars("LANGUAGE"), Chars("URI"), Chars("VIDEO-RANGE"),
     Chars("AUDIO"), Chars("CLOSED-CAPTIONS")}

\* After the call the slot of the key holds the value offered, as it would in a
\* builder that held nothing before, and every other slot is as it was.
OnlySlotWritten(kind, before, after, i, key, value) ==
    /\ after[i] # <<>>
    /\ after[i] = SlotsOf(kind, Incorporate(kind, Default(kind), key, value).self)[i]
    /\ key \in RawKeys => after[i] = <<value>>
    /\ \A j \in 1..Len(before) : j # i => after[j] = before[j]

\* C15: an incorporate call that returns writes the slot of its key, whatever the
\* slot held, and no other slot.
C15_LastWriteWins ==
    [][(nInc' = nInc + 1 /\ bstate' = "open") =>
            OnlySlotWritten(bkind, SlotsOf(bkind, builder), SlotsOf(bkind, builder'),
                            SlotOfKey(bkind, last'.key), last'.key, last'.value)]_vars

\* GROUP-ID was incorporated twice into an audio builder that held nothing: the
\* slot holds the second value and no other slot is set.
C15_Witness ==
    /\ bkind = "audio" /\ bstate = "open" /\ nInc = 2
    /\ last.key = Chars("GROUP-ID") /\ last.value = Chars("2")
    /\ builder = [AudioBuilder_default EXCEPT !.group_id = <<Chars("2")>>]

CcValues == {Chars("CC"), Chars("NONE")}

\* C17: a variant stream's CLOSED-CAPTIONS value is accepted only when it is
\* exactly CC or NONE: no variant-stream builder holds any other value in its
\* closed-captions slot, and no record built from one does.
C17_OnlyCcOrNone ==
    bkind = "stream" =>
        /\ bstate \in {"open", "built"} =>
                \A i \in 1..Len(builder.closed_captions) : builder.closed_captions[i] \in CcValues
        /\ bret.tag = "Ok" => bret.val.closed_captions \in CcValues

\* The parser's side of the same value: a variant-stream line whose
\* CLOSED-CAPTIONS text is v, followed by its URI line.
CcLine(v) ==
    DeclLine(StreamPrefix, [StreamT EXCEPT ![8] = "CLOSED-CAPTIONS=" \o v], Identity(8))
        \o NL \o UriT \o NL

CcTexts == {"CC", "NONE", "YES", "cc", "CCX", "NON", "", "\"NONE\"", "CC ", " NONE"}

\* hls_stream_info, and with it the parse, takes the line exactly when the value
\* between the blanks is CC or NONE, and the flag is whether it is CC.
ParserTakesOnlyCcOrNone ==
    \A v \in CcTexts :
        /\ (hls_stream_info(CcLine(v), 1).tag = "Ok") = (v \in {"CC", "NONE", "CC ", " NONE"})
        /\ (parse_hls_playlist(CcLine(v)).tag = "Ok") = (v \in {"CC", "NONE", "CC ", " NONE"})
        /\ hls_stream_info(CcLine(v), 1).tag \in {"Ok", "Err"}
        /\ hls_stream_info(CcLine(v), 1).tag = "Ok" =>
                hls_stream_info(CcLine(v), 1).val.rec.closed_captions = (v \in {"CC", "CC "})

----------------------------------------------------------------------------
(* Claims about the comparison of resolutions *)

Reversed(o) == IF o = "Less" THEN "Greater" ELSE IF o = "Greater" THEN "Less" ELSE "Equal"

AtMost(o) == o \in {"Less", "Equal"}

\* cmp(a, b) is the reverse of cmp(b, a).
ResolutionCmpReverses(a, b) == Resolution_cmp(a, b) = Reversed(Resolution_cmp(b, a))

\* With a before or equal to b: whatever b is before or equal to, a is too, and
\* strictly before if either step is strict.
ResolutionCmpTransitive(a, b) ==
    AtMost(Resolution_cmp(a, b)) =>
        \A c \in Resolutions :
            AtMost(Resolution_cmp(b, c)) =>
                /\ AtMost(Resolution_cmp(a, c))
                /\ Resolution_cmp(a, c) = "Equal" =>
                        Resolution_cmp(a, b) = "Equal" /\ Resolution_cmp(b, c) = "Equal"

\* C21: Resolution's cmp is a lawful total order consistent with field-wise
\* equality: Equal exactly on the same width and height, cmp(a,b) the reverse of
\* cmp(b,a), transitive, and the same as the derived partial comparison (width
\* first, then height).
C21_ResolutionOrderLawful ==
    CallReturned("Resolution::cmp") =>
        /\ (out.cmp = "Equal") = out.eq
        /\ ResolutionCmpReverses(call.self, call.other)
        /\ ResolutionCmpTransitive(call.self, call.other)
        /\ out.partial_cmp = <<out.cmp>>

----------------------------------------------------------------------------
(* Claims about the URI line and about the loop *)

\* C22: every variant stream of a returned playlist has a non-empty common.uri: an
\* attribute line followed by an empty line, or by a newline and the end of the
\* input, is not accepted as a variant stream with an empty URI.
C22_UriNonEmpty ==
    Accepted => \A k \in 1..Len(ret.playlist.streams) : ret.playlist.streams[k].common.uri # <<>>

\* Every recognizer that succeeds at the head has consumed at least one character.
SuccessConsumes(res) == \A k \in DOMAIN res : res[k].tag = "Ok" => res[k].pos > pos

\* The loop has ended with the input consumed and a playlist returned, or with a
\* failure: an error value, or the panic of a conversion.
Ended ==
    \/ ret.tag = "Ok" /\ pos > Len(data)
    \/ ret.tag \in {"Err", "Panic"}

\* C23: the dispatcher loop always terminates: a recognizer that succeeds consumes
\* at least one character, every iteration moves the head forward, and the loop
\* ends with the input fully consumed or with a failure.
C23_LoopTerminates ==
    /\ [](pc = "parsing" => SuccessConsumes(ResultsAt(data, pos)))
    /\ [][pc' = "parsing" => pos' > pos]_vars
    /\ <>(pc = "done")
    /\ [](pc = "done" => Ended)

\* The loop ran once for each line of a longest document and ended with the input consumed.
C23_Witness ==
    /\ pc = "done" /\ ret.tag = "Ok"
    /\ Len(components) = MaxLines
    /\ pos = Len(data) + 1

====
